---- MODULE Spec2Model ----
(***************************************************************************)
(* Model of src-tauri/src/lib.rs: the three Tauri commands open_in_vlc,    *)
(* open_video_window and report_playback_progress.                         *)
(*                                                                         *)
(* Strings are sequences of one-character strings, so that formatting and  *)
(* percent-encoding are computed character by character.  Paths (PathBuf)  *)
(* are sequences of components; the component "xFF" stands for a name that *)
(* is not valid Unicode.  Option values are sequences of length 0 or 1.    *)
(* OS and framework calls (which, env::var, exists, spawn, SystemTime,     *)
(* build, emit) are inputs of the action that models the handler.          *)
(***************************************************************************)
EXTENDS Integers, Sequences, FiniteSets, TLC

VARIABLES target_os, windows, issued, call

vars == <<target_os, windows, issued, call>>

\* Number of open_video_window invocations explored.
MaxCalls == 2

\* Largest clock reading, in milliseconds since the UNIX epoch.
MaxMillis == 1

----------------------------------------------------------------------------
\* Option<T>, Result<(), String>

None == <<>>

Some(v) == <<v>>

Ok == [ok |-> TRUE, err |-> <<>>]

\* An error string is the sequence of the segments it is formatted from.
Err(e) == [ok |-> FALSE, err |-> e]

\* Option::or (eager) and Option::or_else (lazy) agree on the value.
OrOption(a, b) == IF a # None THEN a ELSE b

----------------------------------------------------------------------------
\* open_in_vlc

TargetOs == {"windows", "macos", "linux"}

ProgramFilesDir == <<"C:", "Program Files">>

ProgramFilesX86Dir == <<"C:", "Program Files (x86)">>

\* PathBuf::from(pf).join("VideoLAN").join("VLC").join("vlc.exe")
VlcUnder(pf) == pf \o <<"VideoLAN", "VLC", "vlc.exe">>

MacBundlePath == <<"Applications", "VLC.app", "Contents", "MacOS", "VLC">>

\* Results of which::which("vlc"): not found, a Unicode path, a path with a
\* component that is not valid Unicode.
WhichVlcResults == {None, Some(<<"bin", "vlc">>), Some(<<"xFF", "vlc">>)}

\* Results of which::which("vlc.exe").
WhichVlcExeResults == {None, Some(<<"bin", "vlc.exe">>)}

\* std::env::var(..).ok(): None when the variable is unset.
ProgramFilesValues == {None, Some(ProgramFilesDir)}

ProgramFilesX86Values == {None, Some(ProgramFilesX86Dir)}

\* The fixed install paths whose existence Path::exists reports.
InstallPaths == {VlcUnder(ProgramFilesDir), VlcUnder(ProgramFilesX86Dir), MacBundlePath}

\* The OS's answer to the spawn request.
SpawnOutcomes == {Ok, Err(<<"Permission denied (os error 13)">>)}

ExampleUrl == <<"h", "t", "t", "p", "s", ":", "/", "/", "e", "x", "a", "m", "p", "l", "e", ".", "c", "o", "m", "/", "s", "t", "r", "e", "a", "m", ".", "m", "3", "u", "8">>

InjectUrl == <<"a", "&", "t", "=", "9">>

Urls == {ExampleUrl, InjectUrl}

\* Stream URLs given to open_video_window: http://tv/1 and a&t=9
StreamUrls == {<<"h", "t", "t", "p", ":", "/", "/", "t", "v", "/", "1">>, InjectUrl}

\* The environment one open_in_vlc call sees.
VlcEnvs == [which_vlc : WhichVlcResults, which_vlc_exe : WhichVlcExeResults,
            ProgramFiles : ProgramFilesValues, ProgramFilesX86 : ProgramFilesX86Values,
            files : SUBSET InstallPaths, spawn : SpawnOutcomes]

\* Path::to_string_lossy: invalid sequences become U+FFFD.
to_string_lossy(p) == [i \in DOMAIN p |-> IF p[i] = "xFF" THEN "uFFFD" ELSE p[i]]

\* opt.map(|p| p.to_string_lossy().into_owned())
MapLossy(opt) == IF opt = None THEN None ELSE Some(to_string_lossy(opt[1]))

\* The install path accepted without asking whether the file exists.
ExistsThenUnchecked(path, files) == Some(to_string_lossy(path))

\* path.exists().then(|| path.to_string_lossy().into_owned())
ExistsThen(path, files) == IF path \in files THEN Some(to_string_lossy(path)) ELSE None

\* The closure probing %ProgramFiles%: `?` returns None when the variable is unset.
ProgramFilesProbe(env) ==
    IF env.ProgramFiles = None THEN None
    ELSE ExistsThen(VlcUnder(env.ProgramFiles[1]), env.files)

\* The closure probing %ProgramFiles(x86)%.
ProgramFilesX86Probe(env) ==
    IF env.ProgramFilesX86 = None THEN None
    ELSE ExistsThen(VlcUnder(env.ProgramFilesX86[1]), env.files)

\* Windows branch: both PATH lookups are let-bound before the chain; the two
\* or_else closures run only while the chain is still None.
WindowsLocate(env) ==
    LET path_vlc == env.which_vlc
        path_vlc_exe == env.which_vlc_exe
        onPath == MapLossy(OrOption(path_vlc, path_vlc_exe))
        afterPf == IF onPath # None THEN onPath ELSE ProgramFilesProbe(env)
        afterPfX86 == IF afterPf # None THEN afterPf ELSE ProgramFilesX86Probe(env)
    IN  [vlc_path |-> afterPfX86,
         probes |-> <<"vlc", "vlc.exe">>
                    \o (IF onPath = None THEN <<"ProgramFiles">> ELSE <<>>)
                    \o (IF afterPf = None THEN <<"ProgramFiles(x86)">> ELSE <<>>)]

\* macOS branch.
MacosLocate(env) ==
    LET onPath == MapLossy(env.which_vlc)
    IN  [vlc_path |-> IF onPath # None THEN onPath ELSE ExistsThen(MacBundlePath, env.files),
         probes |-> <<"vlc">> \o (IF onPath = None THEN <<"VLC.app">> ELSE <<>>)]

\* Any other target.
OtherLocate(env) == [vlc_path |-> MapLossy(env.which_vlc), probes |-> <<"vlc">>]

\* let vlc_path = if cfg!(target_os = "windows") {..} else if cfg!(target_os = "macos") {..} else {..}
Locate(os, env) ==
    IF os = "windows" THEN WindowsLocate(env)
    ELSE IF os = "macos" THEN MacosLocate(env)
    ELSE OtherLocate(env)

NotFoundMessage == "VLC not found. Install VLC and ensure it is in your PATH or in Program Files (Windows)."

\* The program started without the URL.
SpawnRequestWithoutUrl(vlc_path, url) == [program |-> vlc_path, args |-> <<>>]

\* Command::new(&vlc_path).arg(&url)
SpawnRequest(vlc_path, url) == [program |-> vlc_path, args |-> <<url>>]

\* The spawn error dropped.
SpawnResultIgnored(outcome) == Ok

\* .spawn().map_err(|e| format!("Failed to start VLC: {}", e))?; Ok(())
SpawnResult(outcome) ==
    IF outcome.ok THEN Ok ELSE Err(<<"Failed to start VLC: ">> \o outcome.err)

\* The whole handler: locate, then fail with NotFound or make one spawn request.
open_in_vlc_call(os, url, env) ==
    LET located == Locate(os, env)
        found == located.vlc_path # None
    IN  [cmd |-> "open_in_vlc", url |-> url, env |-> env,
         probes |-> located.probes,
         vlc_path |-> located.vlc_path,
         spawns |-> IF found THEN <<SpawnRequest(located.vlc_path[1], url)>> ELSE <<>>,
         result |-> IF found THEN SpawnResult(env.spawn) ELSE Err(<<NotFoundMessage>>)]

Idle == [cmd |-> "idle"]

open_in_vlc ==
    /\ call = Idle
    /\ \E url \in Urls, env \in VlcEnvs : call' = open_in_vlc_call(target_os, url, env)
    /\ UNCHANGED <<target_os, windows, issued>>

----------------------------------------------------------------------------
\* Formatting and percent-encoding

DigitChars == <<"0", "1", "2", "3", "4", "5", "6", "7", "8", "9">>

RECURSIVE Digits(_)
\* Decimal rendering of a natural number, as format!("{}", n) prints it.
Digits(n) == IF n < 10 THEN <<DigitChars[n + 1]>> ELSE Digits(n \div 10) \o <<DigitChars[(n % 10) + 1]>>

RECURSIVE Pow10(_)
Pow10(k) == IF k = 0 THEN 1 ELSE 10 * Pow10(k - 1)

Zeros(k) == [i \in 1..k |-> "0"]

DigitValue(c) == CHOOSE d \in 0..9 : DigitChars[d + 1] = c

RECURSIVE LexLess(_, _)
LexLess(a, b) ==
    IF a = <<>> THEN FALSE
    ELSE IF DigitValue(Head(a)) # DigitValue(Head(b)) THEN DigitValue(Head(a)) < DigitValue(Head(b))
    ELSE LexLess(Tail(a), Tail(b))

\* a < b for two decimal renderings without leading zeros.
DigitsLess(a, b) == \/ Len(a) < Len(b)
                    \/ Len(a) = Len(b) /\ LexLess(a, b)

\* i64::MAX and the magnitude of i64::MIN.
I64MaxDigits == <<"9", "2", "2", "3", "3", "7", "2", "0", "3", "6", "8", "5", "4", "7", "7", "5", "8", "0", "7">>

I64MinDigits == <<"9", "2", "2", "3", "3", "7", "2", "0", "3", "6", "8", "5", "4", "7", "7", "5", "8", "0", "8">>

\* A finite f64 is (-1)^neg * m * 10^e; an i64 is a sign and its decimal magnitude.
F64(neg, m, e) == [neg |-> neg, m |-> m, e |-> e]

I64(n) == [neg |-> n < 0, digits |-> Digits(IF n < 0 THEN 0 - n ELSE n)]

\* Magnitude of the value with its fractional part discarded.
TruncDigits(f) ==
    IF f.m = 0 THEN <<"0">>
    ELSE IF f.e >= 0 THEN Digits(f.m) \o Zeros(f.e)
    ELSE Digits(f.m \div Pow10(0 - f.e))

\* `t as i64`: truncation toward zero, saturating at i64::MIN and i64::MAX.
as_i64(f) ==
    LET d == TruncDigits(f)
    IN  IF d = <<"0">> THEN [neg |-> FALSE, digits |-> d]
        ELSE IF f.neg THEN [neg |-> TRUE, digits |-> IF DigitsLess(I64MinDigits, d) THEN I64MinDigits ELSE d]
        ELSE [neg |-> FALSE, digits |-> IF DigitsLess(I64MaxDigits, d) THEN I64MaxDigits ELSE d]

\* i.max(0)
Max0(i) == IF i.neg THEN [neg |-> FALSE, digits |-> <<"0">>] ELSE i

\* format!("{}", i) for an i64
FormatI64(i) == (IF i.neg THEN <<"-">> ELSE <<>>) \o i.digits

\* t > 0.0
Positive(f) == ~f.neg /\ f.m > 0

\* Characters urlencoding::encode leaves alone: ASCII alphanumerics and - _ . ~
Unreserved ==
    {"a", "b", "c", "d", "e", "f", "g", "h", "i", "j", "k", "l", "m", "n", "o", "p", "q",
     "r", "s", "t", "u", "v", "w", "x", "y", "z", "A", "B", "C", "D", "E", "F", "G", "H",
     "I", "J", "K", "L", "M", "N", "O", "P", "Q", "R", "S", "T", "U", "V", "W", "X", "Y",
     "Z", "0", "1", "2", "3", "4", "5", "6", "7", "8", "9", "-", "_", ".", "~"}

\* The UTF-8 bytes of a character, each as two upper-case hex digits.
Utf8Hex(c) ==
    CASE c = " " -> <<<<"2", "0">>>>
      [] c = "%" -> <<<<"2", "5">>>>
      [] c = "&" -> <<<<"2", "6">>>>
      [] c = "/" -> <<<<"2", "F">>>>
      [] c = ":" -> <<<<"3", "A">>>>
      [] c = "=" -> <<<<"3", "D">>>>
      [] c = "?" -> <<<<"3", "F">>>>
      [] c = "é" -> <<<<"C", "3">>, <<"A", "9">>>>

RECURSIVE PercentBytes(_)
PercentBytes(bytes) ==
    IF bytes = <<>> THEN <<>> ELSE <<"%">> \o Head(bytes) \o PercentBytes(Tail(bytes))

EncodeChar(c) == IF c \in Unreserved THEN <<c>> ELSE PercentBytes(Utf8Hex(c))

\* The text appended to the route unescaped.
encodeNothing(s) == s

RECURSIVE encode(_)
\* urlencoding::encode
encode(s) == IF s = <<>> THEN <<>> ELSE EncodeChar(Head(s)) \o encode(Tail(s))

----------------------------------------------------------------------------
\* open_video_window

Titles == {"Live TV", ""}

\* start_position_secs: absent, 0, -3.5, 0.5, 125.7, 1e19
StartPositions == {None, Some(F64(FALSE, 0, 0)), Some(F64(TRUE, 35, -1)), Some(F64(FALSE, 5, -1)),
                   Some(F64(FALSE, 1257, -1)), Some(F64(FALSE, 1, 19))}

ServerIds == {None, Some(<<"a", "&", "b", "=", "c">>)}

ContentTypes == {None, Some(<<"t", "v", " ", "é">>)}

ContentIds == {None, Some(I64(-5))}

WindowArgs == [title : Titles, stream_url : StreamUrls, start_position_secs : StartPositions,
               server_id : ServerIds, content_type : ContentTypes, content_id : ContentIds]

\* SystemTime::now() in milliseconds since the UNIX epoch.
Clocks == 0..MaxMillis

\* The framework's answer to build() for a label that is not in use.
BuildOutcomes == {Ok, Err(<<"failed to create webview">>)}

\* now().duration_since(UNIX_EPOCH).unwrap_or_default().as_millis(): a reading
\* before the epoch gives the default Duration, 0.
as_millis(now) == IF now < 0 THEN 0 ELSE now

\* format!("video-{}", millis)
Label(millis) == <<"v", "i", "d", "e", "o", "-">> \o Digits(millis)

\* The resume parameter written for every supplied position.
TParamUnguarded(start_position_secs) ==
    IF start_position_secs # None
    THEN <<"&", "t", "=">> \o FormatI64(Max0(as_i64(start_position_secs[1])))
    ELSE <<>>

\* if let Some(t) = start_position_secs { if t > 0.0 { push "&t={}" } }
TParam(start_position_secs) ==
    IF start_position_secs # None /\ Positive(start_position_secs[1])
    THEN <<"&", "t", "=">> \o FormatI64(Max0(as_i64(start_position_secs[1])))
    ELSE <<>>

ServerIdParam(server_id) ==
    IF server_id # None
    THEN <<"&", "s", "e", "r", "v", "e", "r", "I", "d", "=">> \o encode(server_id[1])
    ELSE <<>>

ContentTypeParam(content_type) ==
    IF content_type # None
    THEN <<"&", "c", "o", "n", "t", "e", "n", "t", "T", "y", "p", "e", "=">> \o encode(content_type[1])
    ELSE <<>>

ContentIdParam(content_id) ==
    IF content_id # None
    THEN <<"&", "c", "o", "n", "t", "e", "n", "t", "I", "d", "=">> \o FormatI64(content_id[1])
    ELSE <<>>

\* The route string `path` built by the handler.
Route(args) ==
    <<"v", "i", "d", "e", "o", "-", "w", "i", "n", "d", "o", "w", "?", "u", "r", "l", "=">>
    \o encode(args.stream_url)
    \o TParam(args.start_position_secs)
    \o ServerIdParam(args.server_id)
    \o ContentTypeParam(args.content_type)
    \o ContentIdParam(args.content_id)

\* WebviewWindowBuilder::new(&app, &label, url).title(title).inner_size(960.0, 640.0)
WindowRequest(label, route, title) ==
    [label |-> label, url |-> route, title |-> title, width |-> 960, height |-> 640]

\* build(): the framework refuses a label that is in use, and may refuse otherwise.
Build(open, label, fw) ==
    IF label \in open THEN Err(<<"a webview with this label already exists">>) ELSE fw

\* The build error dropped.
WindowResultIgnored(built) == Ok

\* .build().map_err(|e| e.to_string())?; Ok(())
WindowResult(built) == IF built.ok THEN Ok ELSE Err(built.err)

open_video_window_call(args, now, fw, open) ==
    LET label == Label(as_millis(now))
        path == Route(args)
        built == Build(open, label, fw)
    IN  [cmd |-> "open_video_window", args |-> args, now |-> now,
         label |-> label, path |-> path,
         requests |-> <<WindowRequest(label, path, args.title)>>,
         built |-> built,
         result |-> WindowResult(built)]

open_video_window ==
    /\ call = Idle
    /\ Len(issued) < MaxCalls
    /\ \E args \in WindowArgs, now \in Clocks, fw \in BuildOutcomes :
          /\ call' = open_video_window_call(args, now, fw, windows)
          /\ issued' = Append(issued, [millis |-> as_millis(now), label |-> call'.label])
          /\ windows' = IF call'.built.ok THEN windows \cup {call'.label} ELSE windows
    /\ UNCHANGED target_os

----------------------------------------------------------------------------
\* report_playback_progress

ProgressServerIds == {<<"s", "r", "v", "1">>, <<>>}

ProgressContentTypes == {<<"m", "o", "v", "i", "e">>, <<"t", "v", " ", "é">>}

ProgressContentIds == {I64(42), I64(-5)}

\* progress_secs: 301.25, -3.5, 0
ProgressSecs == {F64(FALSE, 30125, -2), F64(TRUE, 35, -1), F64(FALSE, 0, 0)}

ProgressArgs == [server_id : ProgressServerIds, content_type : ProgressContentTypes,
                 content_id : ProgressContentIds, progress_secs : ProgressSecs]

\* The event bus's answer to emit().
EmitOutcomes == {Ok, Err(<<"failed to emit event">>)}

\* The two string fields exchanged.
PayloadSwapped(args) ==
    [server_id |-> args.content_type, content_type |-> args.server_id,
     content_id |-> args.content_id, progress_secs |-> args.progress_secs]

\* struct Payload { server_id, content_type, content_id, progress_secs }
Payload(args) ==
    [server_id |-> args.server_id, content_type |-> args.content_type,
     content_id |-> args.content_id, progress_secs |-> args.progress_secs]

\* app.emit("playback-progress", payload)
EmitRequest(args) == [event |-> "playback-progress", payload |-> Payload(args)]

\* if let Err(e) = .. { return Err(e.to_string()); } Ok(())
EmitResult(outcome) == IF outcome.ok THEN Ok ELSE Err(outcome.err)

report_playback_progress_call(args, outcome) ==
    [cmd |-> "report_playback_progress", args |-> args, outcome |-> outcome,
     emits |-> <<EmitRequest(args)>>,
     result |-> EmitResult(outcome)]

report_playback_progress ==
    /\ call = Idle
    /\ \E args \in ProgressArgs, outcome \in EmitOutcomes :
          call' = report_playback_progress_call(args, outcome)
    /\ UNCHANGED <<target_os, windows, issued>>

----------------------------------------------------------------------------
\* The command's Result is delivered to the front-end caller.
Return ==
    /\ call # Idle
    /\ call' = Idle
    /\ UNCHANGED <<target_os, windows, issued>>

----------------------------------------------------------------------------
\* What the claims speak about

IsVlcCall == call.cmd = "open_in_vlc"

IsWindowCall == call.cmd = "open_video_window"

IsReportCall == call.cmd = "report_playback_progress"

\* The file at %var%\VideoLAN\VLC\vlc.exe, where the variable is set and the file exists.
InstallCandidate(dir, files) ==
    IF dir # None /\ VlcUnder(dir[1]) \in files THEN Some(VlcUnder(dir[1])) ELSE None

\* The platform's candidates in the documented order: the path each one
\* denotes, or None where it does not exist.
Candidates(os, env) ==
    IF os = "windows"
    THEN <<env.which_vlc, env.which_vlc_exe,
           InstallCandidate(env.ProgramFiles, env.files),
           InstallCandidate(env.ProgramFilesX86, env.files)>>
    ELSE IF os = "macos"
    THEN <<env.which_vlc, IF MacBundlePath \in env.files THEN Some(MacBundlePath) ELSE None>>
    ELSE <<env.which_vlc>>

\* The names of the probes in the documented order.
ProbeOrder(os) ==
    IF os = "windows" THEN <<"vlc", "vlc.exe", "ProgramFiles", "ProgramFiles(x86)">>
    ELSE IF os = "macos" THEN <<"vlc", "VLC.app">>
    ELSE <<"vlc">>

\* Index of the first existing candidate, 0 when none exists.
FirstHit(cands) ==
    IF \E i \in DOMAIN cands : cands[i] # None
    THEN CHOOSE i \in DOMAIN cands : cands[i] # None /\ \A j \in 1..(i - 1) : cands[j] = None
    ELSE 0

FirstExisting(cands) == IF FirstHit(cands) = 0 THEN None ELSE cands[FirstHit(cands)]

\* The player is absent from PATH and present in a fallback install directory.
FallbackOnly(os, env) ==
    LET cands == Candidates(os, env)
    IN  /\ os \in {"windows", "macos"}
        /\ env.which_vlc = None
        /\ os = "windows" => env.which_vlc_exe = None
        /\ FirstExisting(cands) # None

\* The position of the first c in s, 0 when there is none.
IndexOf(s, c) ==
    LET at == {i \in DOMAIN s : s[i] = c}
    IN  IF at = {} THEN 0 ELSE CHOOSE i \in at : \A j \in at : i <= j

\* The positions of sep in s, in increasing order, between 0 and Len(s) + 1.
Cuts(s, sep) ==
    LET at == {i \in DOMAIN s : s[i] = sep}
    IN  <<0>> \o [k \in 1..Cardinality(at) |->
                    CHOOSE i \in at : Cardinality({j \in at : j < i}) = k - 1]
        \o <<Len(s) + 1>>

\* The parts of s between the occurrences of sep.
Split(s, sep) ==
    LET cuts == Cuts(s, sep)
    IN  [k \in 1..(Len(cuts) - 1) |-> SubSeq(s, cuts[k] + 1, cuts[k + 1] - 1)]

\* What precedes the first "?" of a route, the "?" included.
RoutePrefix(route) == SubSeq(route, 1, IndexOf(route, "?"))

QueryOf(route) == SubSeq(route, IndexOf(route, "?") + 1, Len(route))

ParamOf(seg) ==
    LET k == IndexOf(seg, "=")
    IN  IF k = 0 THEN [name |-> seg, value |-> <<>>]
        ELSE [name |-> SubSeq(seg, 1, k - 1), value |-> SubSeq(seg, k + 1, Len(seg))]

\* The query parameters of a route as the window's front-end reads them:
\* split at "&", each part split at its first "=".
QueryParams(route) ==
    LET parts == Split(QueryOf(route), "&")
    IN  [i \in DOMAIN parts |-> ParamOf(parts[i])]

ParamNames(route) ==
    LET params == QueryParams(route)
    IN  [i \in DOMAIN params |-> params[i].name]

RECURSIVE ValuesIn(_, _)
ValuesIn(params, name) ==
    IF params = <<>> THEN <<>>
    ELSE (IF Head(params).name = name THEN <<Head(params).value>> ELSE <<>>)
         \o ValuesIn(Tail(params), name)

\* The values of the parameters called name, in their order in the route.
ValuesOf(route, name) == ValuesIn(QueryParams(route), name)

ReservedChars == {" ", "%", "&", "/", ":", "=", "?", "é"}

IsPrefix(p, s) == Len(p) <= Len(s) /\ SubSeq(s, 1, Len(p)) = p

RECURSIVE PercentDecode(_)
\* Inverse of percent-encoding; an escape that decodes to nothing known yields "invalid".
PercentDecode(s) ==
    IF s = <<>> THEN <<>>
    ELSE IF Head(s) # "%" THEN <<Head(s)>> \o PercentDecode(Tail(s))
    ELSE IF \E c \in ReservedChars : IsPrefix(PercentBytes(Utf8Hex(c)), s)
    THEN LET c == CHOOSE x \in ReservedChars : IsPrefix(PercentBytes(Utf8Hex(x)), s)
         IN  <<c>> \o PercentDecode(SubSeq(s, Len(PercentBytes(Utf8Hex(c))) + 1, Len(s)))
    ELSE <<"invalid">>

\* v is the percent-encoding of plain: only unreserved characters and escapes, decoding to plain.
IsEncodingOf(v, plain) ==
    /\ \A i \in DOMAIN v : v[i] \in Unreserved \cup {"%"}
    /\ PercentDecode(v) = plain

NameUrl == <<"u", "r", "l">>

NameT == <<"t">>

NameServerId == <<"s", "e", "r", "v", "e", "r", "I", "d">>

NameContentType == <<"c", "o", "n", "t", "e", "n", "t", "T", "y", "p", "e">>

NameContentId == <<"c", "o", "n", "t", "e", "n", "t", "I", "d">>

RouteStart == <<"v", "i", "d", "e", "o", "-", "w", "i", "n", "d", "o", "w", "?">>

IfSupplied(opt, name) == IF opt # None THEN <<name>> ELSE <<>>

PositiveSupplied(opt) == opt # None /\ ~opt[1].neg /\ opt[1].m > 0

----------------------------------------------------------------------------
\* C1 (as claimed): the locator returns the first existing candidate of the
\* platform's fixed order, and nothing when no candidate exists.
C1_ReturnsFirstExisting ==
    IsVlcCall => call.vlc_path = FirstExisting(Candidates(target_os, call.env))

\* C2: when no candidate of the platform's probe sequence exists, open_in_vlc
\* returns the NotFound failure with a non-empty message and makes no spawn request.
C2_NotFound ==
    (IsVlcCall /\ FirstExisting(Candidates(target_os, call.env)) = None) =>
        /\ call.result = Err(<<NotFoundMessage>>)
        /\ ~call.result.ok
        /\ \A i \in DOMAIN call.result.err : call.result.err[i] # ""
        /\ call.spawns = <<>>

\* No PATH hit, both Program Files variables unset although the files are on
\* disk: the call has failed with NotFound.
C2_Witness ==
    /\ IsVlcCall
    /\ target_os = "windows"
    /\ call.env.ProgramFiles = None /\ call.env.ProgramFilesX86 = None
    /\ call.env.files = InstallPaths
    /\ call.env.which_vlc = None /\ call.env.which_vlc_exe = None
    /\ ~call.result.ok
    /\ call.spawns = <<>>

\* C3 (as claimed): whenever a path is resolved there is exactly one spawn
\* request, for that path with [url] as arguments, and with the player only
\* in a fallback directory the launch succeeds and runs the fallback path.
C3_Original ==
    (IsVlcCall /\ call.vlc_path # None) =>
        /\ call.spawns = <<[program |-> call.vlc_path[1], args |-> <<call.url>>]>>
        /\ FallbackOnly(target_os, call.env) =>
              /\ call.spawns[1].program = FirstExisting(Candidates(target_os, call.env))[1]
              /\ call.result = Ok

\* C3 (amended): whenever a path is resolved there is exactly one spawn
\* request, for that path with [url] as arguments; with the player only in a
\* fallback directory the request names the fallback path, and the launch
\* succeeds exactly when the OS accepts the request.
C3_SpawnRequest ==
    (IsVlcCall /\ call.vlc_path # None) =>
        /\ call.spawns = <<[program |-> call.vlc_path[1], args |-> <<call.url>>]>>
        /\ FallbackOnly(target_os, call.env) =>
              /\ call.spawns[1].program = FirstExisting(Candidates(target_os, call.env))[1]
              /\ call.result = Ok <=> call.env.spawn.ok

\* The example URL launched on Windows with VLC only under Program Files (x86).
C3_Witness ==
    /\ IsVlcCall
    /\ target_os = "windows"
    /\ call.url = ExampleUrl
    /\ call.env.which_vlc = None /\ call.env.which_vlc_exe = None
    /\ call.env.ProgramFiles = Some(ProgramFilesDir)
    /\ call.env.files = {VlcUnder(ProgramFilesX86Dir)}
    /\ call.spawns = <<[program |-> VlcUnder(ProgramFilesX86Dir), args |-> <<ExampleUrl>>]>>
    /\ call.result = Ok

\* The smaller of a decimal magnitude and i64::MAX.
ClampToI64Max(digits) == IF DigitsLess(I64MaxDigits, digits) THEN I64MaxDigits ELSE digits

\* C4 (as claimed): the route has a `t` parameter exactly when the resume
\* position is supplied and strictly positive, and its value is the position
\* truncated toward zero.
C4_Original ==
    IsWindowCall =>
        ValuesOf(call.path, NameT) =
            IF PositiveSupplied(call.args.start_position_secs)
            THEN <<TruncDigits(call.args.start_position_secs[1])>>
            ELSE <<>>

\* C4 (amended): the route has a `t` parameter exactly when the resume
\* position is supplied and strictly positive, and its value is the position
\* truncated toward zero, or i64::MAX where the truncation exceeds i64::MAX.
C4_ResumeParam ==
    IsWindowCall =>
        ValuesOf(call.path, NameT) =
            IF PositiveSupplied(call.args.start_position_secs)
            THEN <<ClampToI64Max(TruncDigits(call.args.start_position_secs[1]))>>
            ELSE <<>>

\* A resume position of 125.7 has given t=125.
C4_Witness ==
    /\ IsWindowCall
    /\ call.args.start_position_secs = Some(F64(FALSE, 1257, -1))
    /\ ValuesOf(call.path, NameT) = <<<<"1", "2", "5">>>>

\* The percent-encoded values of the parameters, common to both statements of C5.
C5_Values(params, args) ==
    /\ IsEncodingOf(ValuesIn(params, NameUrl)[1], args.stream_url)
    /\ LET ts == ValuesIn(params, NameT)
       IN  \A i \in DOMAIN ts : IsEncodingOf(ts[i], ts[i])
    /\ args.server_id # None =>
          IsEncodingOf(ValuesIn(params, NameServerId)[1], args.server_id[1])
    /\ args.content_type # None =>
          IsEncodingOf(ValuesIn(params, NameContentType)[1], args.content_type[1])
    /\ args.content_id # None =>
          IsEncodingOf(ValuesIn(params, NameContentId)[1], FormatI64(args.content_id[1]))

\* The names of the parameters are exactly those in names, in that order.
C5_Names(params, names) == [i \in DOMAIN params |-> params[i].name] = names

\* C5 (as claimed): the route is video-window?url=<encoded stream_url>
\* followed by one percent-encoded parameter per supplied optional field, in
\* the order t, serverId, contentType, contentId, and nothing else.
C5_Original ==
    IsWindowCall =>
        LET params == QueryParams(call.path)
        IN  /\ RoutePrefix(call.path) = RouteStart
            /\ C5_Names(params,
                  <<NameUrl>>
                  \o IfSupplied(call.args.start_position_secs, NameT)
                  \o IfSupplied(call.args.server_id, NameServerId)
                  \o IfSupplied(call.args.content_type, NameContentType)
                  \o IfSupplied(call.args.content_id, NameContentId))
            /\ C5_Values(params, call.args)

\* C5 (amended): as claimed, except that `t` appears only for a supplied
\* resume position that is strictly positive.
C5_RouteShape ==
    IsWindowCall =>
        LET params == QueryParams(call.path)
        IN  /\ RoutePrefix(call.path) = RouteStart
            /\ C5_Names(params,
                  <<NameUrl>>
                  \o (IF PositiveSupplied(call.args.start_position_secs) THEN <<NameT>> ELSE <<>>)
                  \o IfSupplied(call.args.server_id, NameServerId)
                  \o IfSupplied(call.args.content_type, NameContentType)
                  \o IfSupplied(call.args.content_id, NameContentId))
            /\ C5_Values(params, call.args)

\* Every optional field supplied, with characters that need escaping in the
\* URL, the server id and the content type.
C5_Witness ==
    /\ IsWindowCall
    /\ call.args.stream_url = InjectUrl
    /\ call.args.start_position_secs = Some(F64(FALSE, 1257, -1))
    /\ call.args.server_id = Some(<<"a", "&", "b", "=", "c">>)
    /\ call.args.content_type = Some(<<"t", "v", " ", "é">>)
    /\ call.args.content_id = Some(I64(-5))
    /\ ParamNames(call.path) = <<NameUrl, NameT, NameServerId, NameContentType, NameContentId>>

\* C6 (as claimed): two open_video_window calls made in the same
\* millisecond generate distinct window identifiers.
C6_DistinctLabels ==
    \A i, j \in DOMAIN issued :
        (i # j /\ issued[i].millis = issued[j].millis) => issued[i].label # issued[j].label

\* C7: a report_playback_progress call broadcasts once, the event
\* playback-progress with the four input fields unchanged, and returns
\* success unless the emit fails, and then the emit's error text.
C7_Broadcast ==
    IsReportCall =>
        /\ Len(call.emits) = 1
        /\ call.emits[1].event = "playback-progress"
        /\ DOMAIN call.emits[1].payload = {"server_id", "content_type", "content_id", "progress_secs"}
        /\ call.emits[1].payload.server_id = call.args.server_id
        /\ call.emits[1].payload.content_type = call.args.content_type
        /\ call.emits[1].payload.content_id = call.args.content_id
        /\ call.emits[1].payload.progress_secs = call.args.progress_secs
        /\ call.result = IF call.outcome.ok THEN Ok ELSE Err(call.outcome.err)

\* srv1, movie, 42, 301.25 has been broadcast and the call succeeded.
C7_Witness ==
    /\ IsReportCall
    /\ call.emits = <<[event |-> "playback-progress",
                       payload |-> [server_id |-> <<"s", "r", "v", "1">>,
                                    content_type |-> <<"m", "o", "v", "i", "e">>,
                                    content_id |-> I64(42),
                                    progress_secs |-> F64(FALSE, 30125, -2)]]>>
    /\ call.result = Ok

\* C8: a rejected spawn gives the SpawnFailed error with the OS error text
\* after a single request for the resolved path, although a later candidate
\* may exist; an accepted spawn gives success at once.
C8_SpawnOutcome ==
    (IsVlcCall /\ call.vlc_path # None) =>
        /\ Len(call.spawns) = 1
        /\ call.spawns[1].program = call.vlc_path[1]
        /\ ~call.env.spawn.ok =>
              call.result = Err(<<"Failed to start VLC: ">> \o call.env.spawn.err)
        /\ call.env.spawn.ok => call.result = Ok

\* The spawn of the PATH candidate was rejected while a Program Files copy
\* exists: one request, SpawnFailed.
C8_Witness ==
    /\ IsVlcCall
    /\ target_os = "windows"
    /\ call.env.which_vlc = Some(<<"bin", "vlc">>)
    /\ call.env.ProgramFiles = Some(ProgramFilesDir)
    /\ VlcUnder(ProgramFilesDir) \in call.env.files
    /\ ~call.env.spawn.ok
    /\ Len(call.spawns) = 1
    /\ call.result = Err(<<"Failed to start VLC: ", "Permission denied (os error 13)">>)

\* C9: an open_video_window call makes one construction request (960x640,
\* the title, the route, the label); accepted, the label's window is the one
\* new window and the call succeeds; rejected, the call returns the
\* framework's error text and the set of windows is unchanged.
C9_OneWindowPerCall ==
    [][(call = Idle /\ call'.cmd = "open_video_window") =>
          /\ call'.requests = <<[label |-> call'.label, url |-> call'.path,
                                 title |-> call'.args.title, width |-> 960, height |-> 640]>>
          /\ call'.built.ok =>
                /\ call'.label \notin windows
                /\ windows' = windows \cup {call'.label}
                /\ call'.result = Ok
          /\ ~call'.built.ok =>
                /\ windows' = windows
                /\ call'.result = Err(call'.built.err)]_vars

\* A call whose label was already in use has been rejected.
C9_Witness ==
    /\ IsWindowCall
    /\ Len(issued) = 2
    /\ issued[1].label = issued[2].label
    /\ call.label \in windows
    /\ ~call.built.ok
    /\ call.result = Err(<<"a webview with this label already exists">>)

\* C10 (as claimed): the probes of a call are the documented sequence up to
\* and including the first existing candidate, and no probe after it.
C10_ShortCircuit ==
    IsVlcCall =>
        LET hit == FirstHit(Candidates(target_os, call.env))
            order == ProbeOrder(target_os)
        IN  call.probes = SubSeq(order, 1, IF hit = 0 THEN Len(order) ELSE hit)

----------------------------------------------------------------------------
Init ==
    /\ target_os \in TargetOs
    /\ windows = {}
    /\ issued = <<>>
    /\ call = Idle

Next == open_in_vlc \/ open_video_window \/ report_playback_progress \/ Return

Spec == Init /\ [][Next]_vars

====
